---- MODULE Spec2Model ----
(***************************************************************************)
(* The engagement-aggregation subsystem of the Ly platform: the vote       *)
(* ledger (LikeDislike), the counters derived from it on Composition, Song *)
(* and User, and the route handlers that drive them.  Every `await` of a   *)
(* handler or of a mongoose hook is one step of the request that runs it,  *)
(* so that requests interleave exactly where the event loop lets them.     *)
(* Ratings are kept in tenths (rating 2.5 is 25).                          *)
(***************************************************************************)
EXTENDS Integers, FiniteSets, Sequences, TLC

NumUsers == 2
NumComps == 2
NumSongs == 1
NumProcs == 2
\* Requests a free-running client issues in one run, one at a time and
\* overlapping.
MaxRequests == 3
MaxOverlapped == 3
\* Vote counts on which calculateRating is worked out on its own: up to a
\* hundred votes on a composition.
MaxLikes == 47
MaxDislikes == 53

Users == 1..NumUsers
CompIds == 1..NumComps
Songs == 1..NumSongs
\* The songs of the initial database and one id for a song added later.
SongIds == 1..(NumSongs + 1)
Procs == 1..NumProcs
\* ObjectIds of ledger documents.  An id is handed out again only when no
\* document and no request in flight holds it, so no reference is confused.
VoteIds == 1..(NumUsers * NumComps + NumProcs)

Anonymous == 0
VoteTypes == {"like", "dislike"}
\* Values a client may send as body.type; "love" stands for any invalid one.
BodyTypes == VoteTypes \cup {"love"}

VARIABLES
  ledger,        \* the LikeDislike collection: a set of documents
  compositions,  \* the Composition collection, by id
  songs,         \* the Song collection, by id
  users,         \* User.compositionsCount, by user
  req,           \* per worker: the request it runs, its locals and response
  script,        \* requests a scripted client issues, in order (<<>>: none)
  cursor,        \* how many requests of the script have been issued
  pre,           \* the database as it was when the latest request started
  hist,          \* completed requests with the database before and after
  voters         \* per composition: the users who ever had a vote in the ledger

vars == <<ledger, compositions, songs, users, req, script, cursor, pre, hist, voters>>
dbvars == <<ledger, compositions, songs, users>>

DB == [ledger |-> ledger, compositions |-> compositions,
       songs |-> songs, users |-> users]

----------------------------------------------------------------------------
(* Documents *)

NoVote == [id |-> 0, user |-> 0, composition |-> 0, type |-> "none"]

NoDoc == [exists |-> FALSE, song |-> 0, composer |-> 0,
          likes |-> 0, dislikes |-> 0, rating |-> 0, views |-> 0]

\* A composition with the schema defaults.
NewComposition(s, u) == [exists |-> TRUE, song |-> s, composer |-> u,
                         likes |-> 0, dislikes |-> 0, rating |-> 0, views |-> 0]

NoSong == [exists |-> FALSE, addedBy |-> 0, compositionsCount |-> 0]

NewSong(n, u) == [exists |-> TRUE, addedBy |-> u, compositionsCount |-> n]

\* req.body of a create or update request: the names of the fields it has
\* and, of those the model keeps, their values.  song is body.song of a
\* composition and stands for the title and artist of a song.
NoBody == [fields |-> {}, song |-> 0, likes |-> 0, dislikes |-> 0,
           rating |-> 0, compositionsCount |-> 0]
PlainBody(s) == [NoBody EXCEPT !.fields = {"title", "song"}, !.song = s]
ForgedBody(s) ==
  [fields |-> {"title", "song", "likes", "dislikes", "rating", "compositionsCount"},
   song |-> s, likes |-> 3, dislikes |-> 1, rating |-> 50, compositionsCount |-> 2]
Bodies(s) == {PlainBody(s), ForgedBody(s)}

NoResp == [status |-> 0, action |-> "none", type |-> "absent",
           error |-> "none", likes |-> 0, dislikes |-> 0, total |-> 0,
           rating |-> 0, userVote |-> "absent"]

Idle == [pc |-> "idle", kind |-> "none", user |-> 0, id |-> 0,
         type |-> "none", existingVote |-> NoVote, action |-> "none",
         likes |-> 0, dislikes |-> 0, doc |-> NoDoc, count |-> 0,
         snap |-> 0, body |-> NoBody, resp |-> NoResp]

Free(r) == r.pc \in {"idle", "done"}

\* res.status(s).json(...): an error response.
Fail(r, s, e) == [r EXCEPT !.pc = "done",
                           !.resp = [NoResp EXCEPT !.status = s, !.error = e]]

----------------------------------------------------------------------------
(* The ledger *)

\* LikeDislike.findOne({user, composition})
FindVote(l, u, c) ==
  IF \E e \in l : e.user = u /\ e.composition = c
  THEN CHOOSE e \in l : e.user = u /\ e.composition = c
  ELSE NoVote

\* LikeDislike.countDocuments({composition, type})
CountDocuments(l, c, t) == Cardinality({e \in l : e.composition = c /\ e.type = t})

\* The unique index on {user, composition}: an insert that would make a
\* second document for the pair is rejected with E11000.
NoUniqueIndex(l, u, c) == FALSE
UniqueIndexViolated(l, u, c) == \E e \in l : e.user = u /\ e.composition = c

FreshId ==
  LET used == {e.id : e \in ledger} \cup {req[p].existingVote.id : p \in Procs}
      free == VoteIds \ used
  IN CHOOSE i \in free : \A j \in free : i <= j

\* Composition.countDocuments({composer}) and ({song})
CountAnyComposer(cs, u) == Cardinality({c \in CompIds : cs[c].exists})
CountByComposer(cs, u) == Cardinality({c \in CompIds : cs[c].exists /\ cs[c].composer = u})
CountBySong(cs, s) == Cardinality({c \in CompIds : cs[c].exists /\ cs[c].song = s})

----------------------------------------------------------------------------
(* Number arithmetic of calculateRating *)

\* A JavaScript Number is an IEEE 754 double: Precision significant bits,
\* every operation rounded to the nearest double, ties to even.  A positive
\* Number is kept here as its significant bits, most significant first, and
\* the count of those that follow the binary point: <<1, 0, 1>> with frac 1
\* is 2.5.  Zero has no bits.
Precision == 53

Zero == [bits |-> <<>>, frac |-> 0]

Zeros(n) == [i \in 1..n |-> 0]

RECURSIVE ToNat(_)
ToNat(b) == IF b = <<>> THEN 0 ELSE 2 * ToNat(SubSeq(b, 1, Len(b) - 1)) + b[Len(b)]

\* The carry into position i of a + b, for bit strings of one length: a lower
\* position makes a carry, and every position between passes it on.
Carry(a, b, i) ==
  \E j \in (i + 1)..Len(a) :
    /\ a[j] + b[j] = 2
    /\ \A k \in (i + 1)..(j - 1) : a[k] + b[k] = 1

\* a + b for bit strings of one length.
AddBits(a, b) ==
  LET bit(i) == (a[i] + b[i] + (IF Carry(a, b, i) THEN 1 ELSE 0)) % 2
      sum == SubSeq([i \in 1..Len(a) |-> bit(i)], 1, Len(a))
  IN IF Carry(a, b, 0) THEN <<1>> \o sum ELSE sum

\* m * k, exactly, for a positive integer k.
RECURSIVE MulBits(_, _)
MulBits(m, k) ==
  IF k = 1 THEN m
  ELSE IF k % 2 = 0 THEN MulBits(m, k \div 2) \o <<0>>
  ELSE LET a == MulBits(m, k - 1) IN AddBits(a, Zeros(Len(a) - Len(m)) \o m)

\* The double nearest to the value x, of which sticky says that it has
\* further non-zero bits below those of x.
RoundToDouble(x, sticky) ==
  LET n == Len(x.bits) IN
  IF n <= Precision THEN x
  ELSE LET keep == SubSeq(x.bits, 1, Precision)
           rest == SubSeq(x.bits, Precision + 1, n)
           more == sticky \/ \E i \in 2..Len(rest) : rest[i] = 1
           up == rest[1] = 1 /\ (more \/ keep[Precision] = 1)
       IN [bits |-> IF up THEN AddBits(keep, Zeros(Precision - 1) \o <<1>>) ELSE keep,
           frac |-> x.frac - (n - Precision)]

\* The first n binary digits of r / t after the point, and what is left of
\* the dividend after them, for r < t.
RECURSIVE QuotientBits(_, _, _)
QuotientBits(r, t, n) ==
  IF n = 0 THEN <<>>
  ELSE <<(2 * r) \div t>> \o QuotientBits((2 * r) % t, t, n - 1)

RECURSIVE Remainder(_, _, _)
Remainder(r, t, n) ==
  IF n = 0 \/ r = 0 THEN r ELSE Remainder((2 * r) % t, t, n - 1)

RECURSIVE LeadingZeros(_, _)
LeadingZeros(r, t) == IF 2 * r >= t THEN 0 ELSE 1 + LeadingZeros(2 * r, t)

\* this.likes / total, for 0 <= likes <= total and total > 0.
Divide(l, t) ==
  IF l = 0 THEN Zero
  ELSE IF l = t THEN [bits |-> <<1>>, frac |-> 0]
  ELSE LET z == LeadingZeros(l, t)
           n == z + Precision + 1
       IN RoundToDouble([bits |-> SubSeq(QuotientBits(l, t, n), z + 1, n), frac |-> n],
                        Remainder(l, t, n) # 0)

\* x * k
Times(x, k) ==
  IF x = Zero THEN Zero
  ELSE RoundToDouble([bits |-> MulBits(x.bits, k), frac |-> x.frac], FALSE)

\* Math.round(x): the integer nearest to x, the upper one of two.
MathRound(x) ==
  LET n == Len(x.bits)
      whole == n - x.frac
  IN IF n = 0 \/ whole < 0 THEN 0
     ELSE ToNat(SubSeq(x.bits, 1, whole)) + (IF whole < n THEN x.bits[whole + 1] ELSE 0)

\* Math.round(ratio * 5 * 10) / 10 in tenths: the division by 10 gives the
\* Number that the decimal with that many tenths denotes.
RoundedRating(l, total) == MathRound(Times(Times(Divide(l, total), 5), 10))

\* Ratings of the vote counts the requests of a run can produce, worked out
\* once.
RatingTable ==
  {<<l, d, RoundedRating(l, l + d)>> : l \in 0..NumUsers, d \in 0..NumUsers} \ {<<0, 0, 0>>}

\* What calculateRating returns for a document with these counts.
RatingOfDislikes(l, d) ==
  IF l + d = 0 THEN 0 ELSE RoundedRating(d, l + d)
Rating(l, d) ==
  IF l + d = 0 THEN 0
  ELSE IF l <= NumUsers /\ d <= NumUsers
  THEN (CHOOSE row \in RatingTable : row[1] = l /\ row[2] = d)[3]
  ELSE RoundedRating(l, l + d)

\* compositionSchema.methods.calculateRating, on a document in memory: with
\* no votes it returns 0 and leaves this.rating as it is.
CalculateRating(d) ==
  IF d.likes + d.dislikes = 0 THEN d
  ELSE [d EXCEPT !.rating = Rating(d.likes, d.dislikes)]

----------------------------------------------------------------------------
(* POST /api/compositions/:id/vote *)

StartVote(p) ==
  /\ Free(req[p])
  /\ \E u \in Users, c \in CompIds, t \in BodyTypes :
       req' = [req EXCEPT ![p] = [Idle EXCEPT !.pc = "validate", !.kind = "vote",
                                             !.user = u, !.id = c, !.type = t]]
  /\ UNCHANGED dbvars

\* if (!errors.isEmpty()) return res.status(400): the request is answered
\* from its body alone.
ValidateNothing(p) ==
  /\ req[p].pc = "validate"
  /\ req' = [req EXCEPT ![p] = [req[p] EXCEPT !.pc = "findComposition"]]
  /\ UNCHANGED dbvars
Validate(p) ==
  /\ req[p].pc = "validate"
  /\ req' = [req EXCEPT ![p] =
       IF req[p].type \notin VoteTypes
       THEN Fail(req[p], 400, "validation")
       ELSE [req[p] EXCEPT !.pc = "findComposition"]]
  /\ UNCHANGED dbvars

\* Composition.findById(req.params.id); if (!composition) return 404.
FindCompositionUnchecked(p) ==
  /\ req[p].pc = "findComposition"
  /\ req' = [req EXCEPT ![p] = [req[p] EXCEPT !.pc = "findVote"]]
  /\ UNCHANGED dbvars
FindComposition(p) ==
  /\ req[p].pc = "findComposition"
  /\ req' = [req EXCEPT ![p] =
       IF ~compositions[req[p].id].exists
       THEN Fail(req[p], 404, "notFound")
       ELSE [req[p] EXCEPT !.pc = "findVote"]]
  /\ UNCHANGED dbvars

FindExistingVote(p) ==
  /\ req[p].pc = "findVote"
  /\ req' = [req EXCEPT ![p] =
       [req[p] EXCEPT !.pc = "mutate",
                      !.existingVote = FindVote(ledger, req[p].user, req[p].id)]]
  /\ UNCHANGED dbvars

\* LikeDislike.findByIdAndDelete(existingVote._id); the response follows at
\* once: findOneAndDelete runs none of the schema's post hooks.
KeepDocument(l, id) == l
FindByIdAndDelete(l, id) == {e \in l : e.id # id}

RemoveVote(p) ==
  LET r == req[p] IN
  /\ r.pc = "mutate"
  /\ r.existingVote # NoVote
  /\ r.existingVote.type = r.type
  /\ ledger' = FindByIdAndDelete(ledger, r.existingVote.id)
  /\ req' = [req EXCEPT ![p] =
       [r EXCEPT !.pc = "done", !.action = "removed",
                 !.resp = [NoResp EXCEPT !.status = 200, !.action = "removed"]]]
  /\ UNCHANGED <<compositions, songs, users>>

\* existingVote.type = req.body.type; existingVote.save(): an update of the
\* document with that _id.
ReplaceDocument(l, id, t) ==
  {e \in l : e.id # id} \cup
  {[e EXCEPT !.type = t, !.id = CHOOSE i \in VoteIds : i \notin {x.id : x \in l}]
     : e \in {x \in l : x.id = id}}
SetType(l, id, t) ==
  {IF e.id = id THEN [e EXCEPT !.type = t] ELSE e : e \in l}

UpdateVote(p) ==
  LET r == req[p] IN
  /\ r.pc = "mutate"
  /\ r.existingVote # NoVote
  /\ r.existingVote.type # r.type
  /\ IF \E e \in ledger : e.id = r.existingVote.id
     THEN /\ ledger' = SetType(ledger, r.existingVote.id, r.type)
          /\ req' = [req EXCEPT ![p] =
               [r EXCEPT !.pc = "countLikes", !.action = "updated"]]
     ELSE /\ ledger' = ledger
          /\ req' = [req EXCEPT ![p] = Fail(r, 500, "DocumentNotFoundError")]
  /\ UNCHANGED <<compositions, songs, users>>

\* new LikeDislike({user, composition, type}).save(): an insert.
AddVote(p) ==
  LET r == req[p] IN
  /\ r.pc = "mutate"
  /\ r.existingVote = NoVote
  /\ IF UniqueIndexViolated(ledger, r.user, r.id)
     THEN /\ ledger' = ledger
          /\ req' = [req EXCEPT ![p] = Fail(r, 500, "E11000")]
     ELSE /\ ledger' = ledger \cup {[id |-> FreshId, user |-> r.user,
                                     composition |-> r.id, type |-> r.type]}
          /\ req' = [req EXCEPT ![p] =
               [r EXCEPT !.pc = "countLikes", !.action = "added"]]
  /\ UNCHANGED <<compositions, songs, users>>

\* What the vote handler does once save() and its hooks have returned.
Respond(r) ==
  [r EXCEPT !.pc = "done",
            !.resp = [NoResp EXCEPT !.status = 200, !.action = r.action,
                                    !.type = r.type]]

\* GET /:id: res.json({composition: composition.toObject(), userVote})
Viewed(r, userVote) ==
  [r EXCEPT !.pc = "done",
            !.resp = [NoResp EXCEPT !.status = 200, !.likes = r.doc.likes,
                                    !.dislikes = r.doc.dislikes,
                                    !.rating = r.doc.rating, !.userVote = userVote]]

\* Where a handler goes on once composition.save() and the hooks it runs
\* have returned.
Saved(r) ==
  CASE r.kind = "vote" -> Respond(r)
    [] r.kind = "view" -> IF r.user = Anonymous THEN Viewed(r, "null")
                          ELSE [r EXCEPT !.pc = "findViewerVote"]
    [] r.kind \in {"create", "update"} -> [r EXCEPT !.pc = "populate"]

----------------------------------------------------------------------------
(* likeDislikeSchema.post('save'): updateCompositionCounts *)

CountLikes(p) ==
  /\ req[p].pc = "countLikes"
  /\ req' = [req EXCEPT ![p] =
       [req[p] EXCEPT !.pc = "countDislikes",
                      !.likes = CountDocuments(ledger, req[p].id, "like")]]
  /\ UNCHANGED dbvars

CountDislikes(p) ==
  /\ req[p].pc = "countDislikes"
  /\ req' = [req EXCEPT ![p] =
       [req[p] EXCEPT !.pc = "findCompositionDoc",
                      !.dislikes = CountDocuments(ledger, req[p].id, "dislike")]]
  /\ UNCHANGED dbvars

FindCompositionDoc(p) ==
  /\ req[p].pc = "findCompositionDoc"
  /\ req' = [req EXCEPT ![p] =
       IF compositions[req[p].id].exists
       THEN [req[p] EXCEPT !.pc = "saveComposition", !.doc = compositions[req[p].id]]
       ELSE Respond(req[p])]
  /\ UNCHANGED dbvars

\* composition.likes = likes; composition.dislikes = dislikes;
\* composition.calculateRating(): the document as it is saved.
Recounted(d, likes, dislikes) ==
  CalculateRating([d EXCEPT !.likes = likes, !.dislikes = dislikes])

\* document.save() writes the paths whose value was changed since the
\* document was loaded, and fails if the document is gone.
SavePaths(stored, loaded, new) ==
  [stored EXCEPT !.likes = IF new.likes # loaded.likes THEN new.likes ELSE @,
                 !.dislikes = IF new.dislikes # loaded.dislikes THEN new.dislikes ELSE @,
                 !.rating = IF new.rating # loaded.rating THEN new.rating ELSE @,
                 !.views = IF new.views # loaded.views THEN new.views ELSE @]

SaveComposition(p) ==
  LET r == req[p]
      new == Recounted(r.doc, r.likes, r.dislikes)
  IN
  /\ r.pc = "saveComposition"
  /\ IF compositions[r.id].exists
     THEN /\ compositions' = [compositions EXCEPT ![r.id] = SavePaths(@, r.doc, new)]
          /\ req' = [req EXCEPT ![p] = [r EXCEPT !.pc = "findUser", !.doc = new]]
     ELSE /\ compositions' = compositions
          /\ req' = [req EXCEPT ![p] = Fail(r, 500, "DocumentNotFoundError")]
  /\ UNCHANGED <<ledger, songs, users>>

----------------------------------------------------------------------------
(* compositionSchema.post('save'): the roll-up counters *)

FindUser(p) ==
  /\ req[p].pc = "findUser"
  /\ req' = [req EXCEPT ![p] =
       [req[p] EXCEPT !.pc = "countByComposer", !.snap = users[req[p].doc.composer]]]
  /\ UNCHANGED dbvars

CountUserCompositions(p) ==
  /\ req[p].pc = "countByComposer"
  /\ req' = [req EXCEPT ![p] =
       [req[p] EXCEPT !.pc = "saveUser",
                      !.count = CountByComposer(compositions, req[p].doc.composer)]]
  /\ UNCHANGED dbvars

SaveUser(p) ==
  LET r == req[p] IN
  /\ r.pc = "saveUser"
  /\ users' = [users EXCEPT ![r.doc.composer] = IF r.count # r.snap THEN r.count ELSE @]
  /\ req' = [req EXCEPT ![p] = [r EXCEPT !.pc = "findSong"]]
  /\ UNCHANGED <<ledger, compositions, songs>>

FindSong(p) ==
  LET r == req[p] IN
  /\ r.pc = "findSong"
  /\ req' = [req EXCEPT ![p] =
       IF songs[r.doc.song].exists
       THEN [r EXCEPT !.pc = "countBySong", !.snap = songs[r.doc.song].compositionsCount]
       ELSE Saved(r)]
  /\ UNCHANGED dbvars

\* songSchema.methods.updateCompositionsCount
CountSongCompositions(p) ==
  /\ req[p].pc = "countBySong"
  /\ req' = [req EXCEPT ![p] =
       [req[p] EXCEPT !.pc = "saveSong",
                      !.count = CountBySong(compositions, req[p].doc.song)]]
  /\ UNCHANGED dbvars

SaveSong(p) ==
  LET r == req[p] IN
  /\ r.pc = "saveSong"
  /\ songs' = [songs EXCEPT ![r.doc.song].compositionsCount =
                                IF r.count # r.snap THEN r.count ELSE @]
  /\ req' = [req EXCEPT ![p] = Saved(r)]
  /\ UNCHANGED <<ledger, compositions, users>>

VoteSteps(p) ==
  \/ Validate(p) \/ FindComposition(p) \/ FindExistingVote(p)
  \/ RemoveVote(p) \/ UpdateVote(p) \/ AddVote(p)
  \/ CountLikes(p) \/ CountDislikes(p) \/ FindCompositionDoc(p) \/ SaveComposition(p)
  \/ FindUser(p) \/ CountUserCompositions(p) \/ SaveUser(p)
  \/ FindSong(p) \/ CountSongCompositions(p) \/ SaveSong(p)

----------------------------------------------------------------------------
(* Storage failures during a vote *)

\* Storage rejects the ledger write of the handler (the insert, the update of
\* the type or the delete): the await throws and the catch block answers 500.
LedgerWriteFailsAfterWriting(p) ==
  LET r == req[p] IN
  /\ r.pc = "mutate"
  /\ ledger' = IF r.existingVote = NoVote
                THEN ledger \cup {[id |-> FreshId, user |-> r.user,
                                    composition |-> r.id, type |-> r.type]}
                ELSE FindByIdAndDelete(ledger, r.existingVote.id)
  /\ req' = [req EXCEPT ![p] = Fail(r, 500, "ledgerWrite")]
  /\ UNCHANGED <<compositions, songs, users>>
LedgerWriteFails(p) ==
  /\ req[p].pc = "mutate"
  /\ req' = [req EXCEPT ![p] = Fail(req[p], 500, "ledgerWrite")]
  /\ UNCHANGED dbvars

\* Storage rejects a query or the save of updateCompositionCounts: the hook
\* throws, the save() of the vote rejects and the catch block answers 500.
\* Nothing undoes the ledger write that came before.
RecountFailsAndUndoes(p) ==
  LET r == req[p] IN
  /\ r.kind = "vote"
  /\ r.pc \in {"countLikes", "countDislikes", "findCompositionDoc", "saveComposition"}
  /\ ledger' = {e \in ledger : ~(e.user = r.user /\ e.composition = r.id)}
                 \cup (IF r.existingVote # NoVote THEN {r.existingVote} ELSE {})
  /\ req' = [req EXCEPT ![p] = Fail(r, 500, "recount")]
  /\ UNCHANGED <<compositions, songs, users>>
RecountFails(p) ==
  LET r == req[p] IN
  /\ r.kind = "vote"
  /\ r.pc \in {"countLikes", "countDislikes", "findCompositionDoc", "saveComposition"}
  /\ req' = [req EXCEPT ![p] = Fail(r, 500, "recount")]
  /\ UNCHANGED dbvars

----------------------------------------------------------------------------
(* DELETE /api/compositions/:id *)

StartDelete(p) ==
  /\ Free(req[p])
  /\ \E u \in Users, c \in CompIds :
       req' = [req EXCEPT ![p] = [Idle EXCEPT !.pc = "findForDelete",
                                             !.kind = "delete", !.user = u, !.id = c]]
  /\ UNCHANGED dbvars

FindForDeleteAnyUser(p) ==
  LET r == req[p] IN
  /\ r.pc = "findForDelete"
  /\ req' = [req EXCEPT ![p] =
       IF ~compositions[r.id].exists THEN Fail(r, 404, "notFound")
       ELSE [r EXCEPT !.pc = "deleteVotes"]]
  /\ UNCHANGED dbvars
FindForDelete(p) ==
  LET r == req[p] IN
  /\ r.pc = "findForDelete"
  /\ req' = [req EXCEPT ![p] =
       IF ~compositions[r.id].exists THEN Fail(r, 404, "notFound")
       ELSE IF compositions[r.id].composer # r.user THEN Fail(r, 403, "notAuthorized")
       ELSE [r EXCEPT !.pc = "deleteVotes"]]
  /\ UNCHANGED dbvars

\* LikeDislike.deleteMany({composition})
DeleteNone(l, c) == l
DeleteMany(l, c) == {e \in l : e.composition # c}

DeleteVotes(p) ==
  /\ req[p].pc = "deleteVotes"
  /\ ledger' = DeleteMany(ledger, req[p].id)
  /\ req' = [req EXCEPT ![p] = [req[p] EXCEPT !.pc = "deleteComposition"]]
  /\ UNCHANGED <<compositions, songs, users>>

\* Composition.findByIdAndDelete(req.params.id), then the response.
DeleteComposition(p) ==
  /\ req[p].pc = "deleteComposition"
  /\ compositions' = [compositions EXCEPT ![req[p].id] = NoDoc]
  /\ req' = [req EXCEPT ![p] =
       [req[p] EXCEPT !.pc = "done", !.resp = [NoResp EXCEPT !.status = 200]]]
  /\ UNCHANGED <<ledger, songs, users>>

DeleteSteps(p) == FindForDelete(p) \/ DeleteVotes(p) \/ DeleteComposition(p)

----------------------------------------------------------------------------
(* DELETE /api/songs/:id *)

StartDeleteSong(p) ==
  /\ Free(req[p])
  /\ \E u \in Users, s \in SongIds :
       req' = [req EXCEPT ![p] = [Idle EXCEPT !.pc = "findSongForDelete",
                                             !.kind = "deleteSong", !.user = u, !.id = s]]
  /\ UNCHANGED dbvars

\* Song.findById(req.params.id); 404 if absent, 403 unless req.user added it.
FindSongForDelete(p) ==
  LET r == req[p] IN
  /\ r.pc = "findSongForDelete"
  /\ req' = [req EXCEPT ![p] =
       IF ~songs[r.id].exists THEN Fail(r, 404, "notFound")
       ELSE IF songs[r.id].addedBy # r.user THEN Fail(r, 403, "notAuthorized")
       ELSE [r EXCEPT !.pc = "deleteSongCompositions"]]
  /\ UNCHANGED dbvars

\* Composition.deleteMany({song: song._id}): a query, it runs no document
\* hook and touches no other collection.
DeleteSongCompositions(p) ==
  LET r == req[p] IN
  /\ r.pc = "deleteSongCompositions"
  /\ compositions' = [c \in CompIds |->
       IF compositions[c].exists /\ compositions[c].song = r.id
       THEN NoDoc ELSE compositions[c]]
  /\ req' = [req EXCEPT ![p] = [r EXCEPT !.pc = "deleteSong"]]
  /\ UNCHANGED <<ledger, songs, users>>

\* Song.findByIdAndDelete(req.params.id), then the response.
DeleteSong(p) ==
  LET r == req[p] IN
  /\ r.pc = "deleteSong"
  /\ songs' = [songs EXCEPT ![r.id] = NoSong]
  /\ req' = [req EXCEPT ![p] =
       [r EXCEPT !.pc = "done", !.resp = [NoResp EXCEPT !.status = 200]]]
  /\ UNCHANGED <<ledger, compositions, users>>

----------------------------------------------------------------------------
(* GET /api/compositions/:id/votes *)

StartSummary(p) ==
  /\ Free(req[p])
  /\ \E u \in Users \cup {Anonymous}, c \in CompIds :
       req' = [req EXCEPT ![p] = [Idle EXCEPT !.pc = "findSummaryDoc",
                                             !.kind = "summary", !.user = u, !.id = c]]
  /\ UNCHANGED dbvars

\* Composition.findById(req.params.id); the document is only read.
FindSummaryDocCountingView(p) ==
  LET r == req[p] IN
  /\ r.pc = "findSummaryDoc"
  /\ req' = [req EXCEPT ![p] =
       IF ~compositions[r.id].exists THEN Fail(r, 404, "notFound")
       ELSE [r EXCEPT !.pc = "aggregate", !.doc = compositions[r.id]]]
  /\ compositions' = [compositions EXCEPT ![r.id].views =
                        IF compositions[r.id].exists THEN @ + 1 ELSE @]
  /\ UNCHANGED <<ledger, songs, users>>
FindSummaryDoc(p) ==
  LET r == req[p] IN
  /\ r.pc = "findSummaryDoc"
  /\ req' = [req EXCEPT ![p] =
       IF ~compositions[r.id].exists THEN Fail(r, 404, "notFound")
       ELSE [r EXCEPT !.pc = "aggregate", !.doc = compositions[r.id]]]
  /\ UNCHANGED dbvars

\* res.json({compositionId, likes, dislikes, total, rating, userVote})
SummaryWithoutUserVote(r, likes, dislikes, userVote) ==
  [r EXCEPT !.pc = "done",
            !.resp = [NoResp EXCEPT !.status = 200, !.likes = likes,
                                    !.dislikes = dislikes, !.total = likes + dislikes,
                                    !.rating = r.doc.rating, !.userVote = "null"]]
Summary(r, likes, dislikes, userVote) ==
  [r EXCEPT !.pc = "done",
            !.resp = [NoResp EXCEPT !.status = 200, !.likes = likes,
                                    !.dislikes = dislikes, !.total = likes + dislikes,
                                    !.rating = r.doc.rating, !.userVote = userVote]]

\* LikeDislike.aggregate([$match composition, $group by type]): one query.
Aggregate(p) ==
  LET r == req[p]
      likes == CountDocuments(ledger, r.id, "like")
      dislikes == CountDocuments(ledger, r.id, "dislike")
  IN
  /\ r.pc = "aggregate"
  /\ req' = [req EXCEPT ![p] =
       IF r.user = Anonymous THEN Summary(r, likes, dislikes, "null")
       ELSE [r EXCEPT !.pc = "findUserVote", !.likes = likes, !.dislikes = dislikes]]
  /\ UNCHANGED dbvars

FindUserVote(p) ==
  LET r == req[p]
      vote == FindVote(ledger, r.user, r.id)
  IN
  /\ r.pc = "findUserVote"
  /\ req' = [req EXCEPT ![p] =
       Summary(r, r.likes, r.dislikes, IF vote # NoVote THEN vote.type ELSE "null")]
  /\ UNCHANGED dbvars

SummarySteps(p) == FindSummaryDoc(p) \/ Aggregate(p) \/ FindUserVote(p)

----------------------------------------------------------------------------
(* GET /api/compositions/:id *)

StartView(p) ==
  /\ Free(req[p])
  /\ \E u \in Users \cup {Anonymous}, c \in CompIds :
       req' = [req EXCEPT ![p] = [Idle EXCEPT !.pc = "findForView",
                                             !.kind = "view", !.user = u, !.id = c]]
  /\ UNCHANGED dbvars

FindForView(p) ==
  LET r == req[p] IN
  /\ r.pc = "findForView"
  /\ req' = [req EXCEPT ![p] =
       IF ~compositions[r.id].exists THEN Fail(r, 404, "notFound")
       ELSE [r EXCEPT !.pc = "saveView", !.doc = compositions[r.id]]]
  /\ UNCHANGED dbvars

\* composition.views += 1; composition.save()
SaveView(p) ==
  LET r == req[p]
      new == [r.doc EXCEPT !.views = @ + 1]
  IN
  /\ r.pc = "saveView"
  /\ IF compositions[r.id].exists
     THEN /\ compositions' = [compositions EXCEPT ![r.id] = SavePaths(@, r.doc, new)]
          /\ req' = [req EXCEPT ![p] = [r EXCEPT !.pc = "findUser", !.doc = new]]
     ELSE /\ compositions' = compositions
          /\ req' = [req EXCEPT ![p] = Fail(r, 500, "DocumentNotFoundError")]
  /\ UNCHANGED <<ledger, songs, users>>

FindViewerVote(p) ==
  LET r == req[p]
      vote == FindVote(ledger, r.user, r.id)
  IN
  /\ r.pc = "findViewerVote"
  /\ req' = [req EXCEPT ![p] = Viewed(r, IF vote # NoVote THEN vote.type ELSE "null")]
  /\ UNCHANGED dbvars

----------------------------------------------------------------------------
(* POST /api/compositions *)

\* The ids a new composition can get: the collection holds NumComps documents.
FreeCompIds == {c \in CompIds : ~compositions[c].exists}

StartCreate(p) ==
  /\ Free(req[p])
  /\ FreeCompIds # {}
  /\ \E u \in Users, s \in SongIds :
       \E b \in Bodies(s) :
         req' = [req EXCEPT ![p] = [Idle EXCEPT !.pc = "findSongForCreate",
                                               !.kind = "create", !.user = u, !.body = b]]
  /\ UNCHANGED dbvars

\* Song.findById(req.body.song)
FindSongForCreate(p) ==
  LET r == req[p] IN
  /\ r.pc = "findSongForCreate"
  /\ req' = [req EXCEPT ![p] =
       IF ~songs[r.body.song].exists THEN Fail(r, 404, "notFound")
       ELSE [r EXCEPT !.pc = "insertComposition"]]
  /\ UNCHANGED dbvars

\* new Composition({...req.body, composer: req.user._id}): every schema path
\* the body has is taken from the body, the others get their defaults.
FromBody(body, u) ==
  [NewComposition(body.song, u) EXCEPT
     !.likes = IF "likes" \in body.fields THEN body.likes ELSE @,
     !.dislikes = IF "dislikes" \in body.fields THEN body.dislikes ELSE @,
     !.rating = IF "rating" \in body.fields THEN body.rating ELSE @]

\* composition.save(): the insert; its post('save') hook follows.
InsertComposition(p) ==
  LET r == req[p]
      id == CHOOSE c \in FreeCompIds : \A x \in FreeCompIds : c <= x
      new == FromBody(r.body, r.user)
  IN
  /\ r.pc = "insertComposition"
  /\ FreeCompIds # {}
  /\ compositions' = [compositions EXCEPT ![id] = new]
  /\ req' = [req EXCEPT ![p] = [r EXCEPT !.pc = "findUser", !.id = id, !.doc = new]]
  /\ UNCHANGED <<ledger, songs, users>>

\* Composition.findById(composition._id).populate(...), then the response
\* with the document: 201 for a create, 200 for an update.
Populate(p) ==
  LET r == req[p]
      d == compositions[r.id]
  IN
  /\ r.pc = "populate"
  /\ req' = [req EXCEPT ![p] =
       [r EXCEPT !.pc = "done",
                 !.resp = [NoResp EXCEPT !.status = IF r.kind = "create" THEN 201 ELSE 200,
                                         !.likes = d.likes, !.dislikes = d.dislikes,
                                         !.rating = d.rating]]]
  /\ UNCHANGED dbvars

----------------------------------------------------------------------------
(* PUT /api/compositions/:id *)

AllowedUpdates ==
  {"title", "description", "content", "difficulty", "style", "tuning",
   "capo", "tempo", "key", "tags", "isPublic", "attachments"}

StartUpdate(p) ==
  /\ Free(req[p])
  /\ \E u \in Users, c \in CompIds :
       \E b \in Bodies(0) :
         req' = [req EXCEPT ![p] = [Idle EXCEPT !.pc = "findForUpdate", !.kind = "update",
                                               !.user = u, !.id = c, !.body = b]]
  /\ UNCHANGED dbvars

\* allowedUpdates.forEach(field => { if (req.body[field] !== undefined)
\* composition[field] = req.body[field] })
Assigned(d, body) ==
  LET given == AllowedUpdates \cap body.fields IN
  [d EXCEPT !.likes = IF "likes" \in given THEN body.likes ELSE @,
            !.dislikes = IF "dislikes" \in given THEN body.dislikes ELSE @,
            !.rating = IF "rating" \in given THEN body.rating ELSE @]

FindForUpdate(p) ==
  LET r == req[p] IN
  /\ r.pc = "findForUpdate"
  /\ req' = [req EXCEPT ![p] =
       IF ~compositions[r.id].exists THEN Fail(r, 404, "notFound")
       ELSE IF compositions[r.id].composer # r.user THEN Fail(r, 403, "notAuthorized")
       ELSE [r EXCEPT !.pc = "saveUpdate", !.doc = compositions[r.id]]]
  /\ UNCHANGED dbvars

\* composition.save() of the document with the assigned fields.
SaveUpdate(p) ==
  LET r == req[p]
      new == Assigned(r.doc, r.body)
  IN
  /\ r.pc = "saveUpdate"
  /\ IF compositions[r.id].exists
     THEN /\ compositions' = [compositions EXCEPT ![r.id] = SavePaths(@, r.doc, new)]
          /\ req' = [req EXCEPT ![p] = [r EXCEPT !.pc = "findUser", !.doc = new]]
     ELSE /\ compositions' = compositions
          /\ req' = [req EXCEPT ![p] = Fail(r, 500, "DocumentNotFoundError")]
  /\ UNCHANGED <<ledger, songs, users>>

----------------------------------------------------------------------------
(* POST /api/songs *)

\* A song is known by its title and artist, for which its id stands.
StartAddSong(p) ==
  /\ Free(req[p])
  /\ \E u \in Users, s \in SongIds :
       \E b \in Bodies(s) :
         req' = [req EXCEPT ![p] = [Idle EXCEPT !.pc = "findExistingSong",
                                               !.kind = "addSong", !.user = u, !.body = b]]
  /\ UNCHANGED dbvars

\* Song.findOne({title, artist}); if (existingSong) return 400.
FindExistingSong(p) ==
  LET r == req[p] IN
  /\ r.pc = "findExistingSong"
  /\ req' = [req EXCEPT ![p] =
       IF songs[r.body.song].exists THEN Fail(r, 400, "exists")
       ELSE [r EXCEPT !.pc = "insertSong"]]
  /\ UNCHANGED dbvars

\* new Song({...req.body, addedBy: req.user._id}).save()
InsertSong(p) ==
  LET r == req[p] IN
  /\ r.pc = "insertSong"
  /\ songs' = [songs EXCEPT ![r.body.song] =
       NewSong(IF "compositionsCount" \in r.body.fields
               THEN r.body.compositionsCount ELSE 0, r.user)]
  /\ req' = [req EXCEPT ![p] = [r EXCEPT !.pc = "populateSong"]]
  /\ UNCHANGED <<ledger, compositions, users>>

\* Song.findById(song._id).populate(...), then the 201 response.
PopulateSong(p) ==
  /\ req[p].pc = "populateSong"
  /\ req' = [req EXCEPT ![p] =
       [req[p] EXCEPT !.pc = "done", !.resp = [NoResp EXCEPT !.status = 201]]]
  /\ UNCHANGED dbvars

----------------------------------------------------------------------------
(* Clients *)

Vote(u, c, t) == [kind |-> "vote", user |-> u, id |-> c, type |-> t, overlap |-> FALSE]
GetVotes(u, c) == [kind |-> "summary", user |-> u, id |-> c, type |-> "none", overlap |-> FALSE]
\* A request sent without waiting for the previous one's response.
Overlapping(item) == [item EXCEPT !.overlap = TRUE]

FirstStep(kind) ==
  CASE kind = "vote" -> "validate"
    [] kind = "summary" -> "findSummaryDoc"
    [] kind = "delete" -> "findForDelete"

\* The scripted client sends its next request, after the response to the
\* previous one unless the request is marked as overlapping.
StartScripted(p) ==
  /\ cursor < Len(script)
  /\ Free(req[p])
  /\ LET item == script[cursor + 1] IN
       /\ item.overlap \/ \A q \in Procs : Free(req[q])
       /\ req' = [req EXCEPT ![p] = [Idle EXCEPT !.pc = FirstStep(item.kind),
                                                !.kind = item.kind, !.user = item.user,
                                                !.id = item.id, !.type = item.type]]
  /\ cursor' = cursor + 1
  /\ UNCHANGED <<dbvars, script>>

AllFree == \A p \in Procs : Free(req[p])

\* The requests go to the first free worker.
FirstFree(p) == \A q \in Procs : q < p => ~Free(req[q])

\* Book-keeping of who voted: the voters of the ledger's documents are added
\* to those seen so far.
Recorded ==
  voters' = [c \in CompIds |->
               voters[c] \cup {e.user : e \in {x \in ledger' : x.composition = c}}]

\* Book-keeping of what the clients saw: the database when p's request
\* started and, when it completes, the request with the database before and
\* after it.  Both say what one request did only when requests do not overlap.
Observe(p) ==
  IF Free(req[p])
  THEN pre' = DB /\ hist' = hist
  ELSE IF req'[p].pc = "done"
  THEN pre' = pre /\ hist' = Append(hist, [req |-> req'[p], pre |-> pre, post |-> DB'])
  ELSE pre' = pre /\ hist' = hist

----------------------------------------------------------------------------
(* Specifications *)

\* The database after the compositions were created and before any vote:
\* likes, dislikes and rating at their defaults, the roll-ups as the
\* composition's save hook left them.
\* Composition c was composed by user ComposerOf(c) for song SongOf(c).
ComposerOf(c) == ((c - 1) % NumUsers) + 1
SongOf(c) == ((c - 1) % NumSongs) + 1

\* The songs of the initial database, their roll-ups as the save hooks of
\* their compositions left them.
\* Song s was added by user AdderOf(s).
AdderOf(s) == ((s - 1) % NumUsers) + 1

InitialSongs(cs) ==
  [s \in SongIds |->
     IF s \in Songs THEN NewSong(CountBySong(cs, s), AdderOf(s)) ELSE NoSong]

InitDB ==
  /\ ledger = {}
  /\ compositions = [c \in CompIds |-> NewComposition(SongOf(c), ComposerOf(c))]
  /\ songs = InitialSongs(compositions)
  /\ users = [u \in Users |-> CountByComposer(compositions, u)]
  /\ req = [p \in Procs |-> Idle]
  /\ cursor = 0
  /\ pre = DB
  /\ hist = <<>>
  /\ voters = [c \in CompIds |-> {}]

Init == InitDB /\ script = <<>>

\* A free-running client sends a request.
Issue(p, limit, A) ==
  /\ cursor < limit /\ FirstFree(p) /\ A
  /\ cursor' = cursor + 1 /\ UNCHANGED <<script, voters>>

\* Requests run in parallel, interleaved at every await.
Parallel(A) == A /\ Recorded /\ UNCHANGED <<script, cursor, pre, hist>>

Next ==
  \E p \in Procs :
    \/ Issue(p, MaxOverlapped, StartVote(p)) /\ UNCHANGED <<pre, hist>>
    \/ Issue(p, MaxOverlapped, StartDelete(p)) /\ UNCHANGED <<pre, hist>>
    \/ Parallel(Validate(p))
    \/ Parallel(FindComposition(p))
    \/ Parallel(FindExistingVote(p))
    \/ Parallel(RemoveVote(p))
    \/ Parallel(UpdateVote(p))
    \/ Parallel(AddVote(p))
    \/ Parallel(CountLikes(p))
    \/ Parallel(CountDislikes(p))
    \/ Parallel(FindCompositionDoc(p))
    \/ Parallel(SaveComposition(p))
    \/ Parallel(FindUser(p))
    \/ Parallel(CountUserCompositions(p))
    \/ Parallel(SaveUser(p))
    \/ Parallel(FindSong(p))
    \/ Parallel(CountSongCompositions(p))
    \/ Parallel(SaveSong(p))
    \/ Parallel(FindForDelete(p))
    \/ Parallel(DeleteVotes(p))
    \/ Parallel(DeleteComposition(p))

Spec == Init /\ [][Next]_vars

\* Requests run one at a time.
Alone(p, A) == A /\ Observe(p) /\ Recorded /\ UNCHANGED <<script, cursor>>

NextSeq ==
  \E p \in Procs :
    \/ AllFree /\ Issue(p, MaxRequests, StartVote(p)) /\ Observe(p)
    \/ AllFree /\ Issue(p, MaxRequests, StartDelete(p)) /\ Observe(p)
    \/ AllFree /\ Issue(p, MaxRequests, StartSummary(p)) /\ Observe(p)
    \/ Alone(p, Validate(p))
    \/ Alone(p, FindComposition(p))
    \/ Alone(p, FindExistingVote(p))
    \/ Alone(p, RemoveVote(p))
    \/ Alone(p, UpdateVote(p))
    \/ Alone(p, AddVote(p))
    \/ Alone(p, CountLikes(p))
    \/ Alone(p, CountDislikes(p))
    \/ Alone(p, FindCompositionDoc(p))
    \/ Alone(p, SaveComposition(p))
    \/ Alone(p, FindUser(p))
    \/ Alone(p, CountUserCompositions(p))
    \/ Alone(p, SaveUser(p))
    \/ Alone(p, FindSong(p))
    \/ Alone(p, CountSongCompositions(p))
    \/ Alone(p, SaveSong(p))
    \/ Alone(p, FindForDelete(p))
    \/ Alone(p, DeleteVotes(p))
    \/ Alone(p, DeleteComposition(p))
    \/ Alone(p, FindSummaryDoc(p))
    \/ Alone(p, Aggregate(p))
    \/ Alone(p, FindUserVote(p))
    \/ AllFree /\ Issue(p, MaxRequests, StartView(p)) /\ Observe(p)
    \/ Alone(p, FindForView(p))
    \/ Alone(p, SaveView(p))
    \/ Alone(p, FindViewerVote(p))

SpecSeq == Init /\ [][NextSeq]_vars

\* Votes and deletes of songs, one request at a time.
NextSong ==
  \E p \in Procs :
    \/ AllFree /\ Issue(p, MaxRequests, StartVote(p)) /\ Observe(p)
    \/ AllFree /\ Issue(p, MaxRequests, StartDeleteSong(p)) /\ Observe(p)
    \/ Alone(p, Validate(p))
    \/ Alone(p, FindComposition(p))
    \/ Alone(p, FindExistingVote(p))
    \/ Alone(p, RemoveVote(p))
    \/ Alone(p, UpdateVote(p))
    \/ Alone(p, AddVote(p))
    \/ Alone(p, CountLikes(p))
    \/ Alone(p, CountDislikes(p))
    \/ Alone(p, FindCompositionDoc(p))
    \/ Alone(p, SaveComposition(p))
    \/ Alone(p, FindUser(p))
    \/ Alone(p, CountUserCompositions(p))
    \/ Alone(p, SaveUser(p))
    \/ Alone(p, FindSong(p))
    \/ Alone(p, CountSongCompositions(p))
    \/ Alone(p, SaveSong(p))
    \/ Alone(p, FindSongForDelete(p))
    \/ Alone(p, DeleteSongCompositions(p))
    \/ Alone(p, DeleteSong(p))

SpecSong == Init /\ [][NextSong]_vars

\* Votes run one at a time on a storage that may reject any write of the
\* ledger and any step of the recount.
NextFault ==
  \E p \in Procs :
    \/ AllFree /\ Issue(p, MaxRequests, StartVote(p)) /\ Observe(p)
    \/ Alone(p, Validate(p))
    \/ Alone(p, FindComposition(p))
    \/ Alone(p, FindExistingVote(p))
    \/ Alone(p, RemoveVote(p))
    \/ Alone(p, UpdateVote(p))
    \/ Alone(p, AddVote(p))
    \/ Alone(p, LedgerWriteFails(p))
    \/ Alone(p, CountLikes(p))
    \/ Alone(p, CountDislikes(p))
    \/ Alone(p, FindCompositionDoc(p))
    \/ Alone(p, SaveComposition(p))
    \/ Alone(p, RecountFails(p))
    \/ Alone(p, FindUser(p))
    \/ Alone(p, CountUserCompositions(p))
    \/ Alone(p, SaveUser(p))
    \/ Alone(p, FindSong(p))
    \/ Alone(p, CountSongCompositions(p))
    \/ Alone(p, SaveSong(p))

SpecFault == Init /\ [][NextFault]_vars

\* Compositions and songs are created and updated, one request at a time,
\* in a database that has songs and users and no composition yet.
InitCreate ==
  /\ ledger = {}
  /\ compositions = [c \in CompIds |-> NoDoc]
  /\ songs = InitialSongs(compositions)
  /\ users = [u \in Users |-> 0]
  /\ req = [p \in Procs |-> Idle]
  /\ script = <<>>
  /\ cursor = 0
  /\ pre = DB
  /\ hist = <<>>
  /\ voters = [c \in CompIds |-> {}]

NextCreate ==
  \E p \in Procs :
    \/ AllFree /\ Issue(p, MaxRequests, StartCreate(p)) /\ Observe(p)
    \/ AllFree /\ Issue(p, MaxRequests, StartUpdate(p)) /\ Observe(p)
    \/ AllFree /\ Issue(p, MaxRequests, StartAddSong(p)) /\ Observe(p)
    \/ Alone(p, FindSongForCreate(p))
    \/ Alone(p, InsertComposition(p))
    \/ Alone(p, FindForUpdate(p))
    \/ Alone(p, SaveUpdate(p))
    \/ Alone(p, FindUser(p))
    \/ Alone(p, CountUserCompositions(p))
    \/ Alone(p, SaveUser(p))
    \/ Alone(p, FindSong(p))
    \/ Alone(p, CountSongCompositions(p))
    \/ Alone(p, SaveSong(p))
    \/ Alone(p, Populate(p))
    \/ Alone(p, FindExistingSong(p))
    \/ Alone(p, InsertSong(p))
    \/ Alone(p, PopulateSong(p))

SpecCreate == InitCreate /\ [][NextCreate]_vars

\* A request by voter w on the same composition that may precede a script.
Prefixes(c) == {<<>>} \cup {<<Vote(w, c, x)>> : w \in Users, x \in VoteTypes}

\* The same vote twice in a row.
ToggleScripts ==
  UNION {{pf \o <<Vote(u, c, t), Vote(u, c, t)>> :
            pf \in Prefixes(c), u \in Users, t \in VoteTypes} : c \in CompIds}

\* A like between two reads of the summary by the same voter.
SummaryScripts ==
  UNION {{pf \o <<GetVotes(u, c), Vote(u, c, "like"), GetVotes(u, c)>> :
            pf \in Prefixes(c), u \in Users} : c \in CompIds}

\* A likes T, B dislikes T, A dislikes T, B dislikes T again.
Scenario(a, b, c) ==
  <<Vote(a, c, "like"), Vote(b, c, "dislike"), Vote(a, c, "dislike"), Vote(b, c, "dislike")>>

ScenarioScripts ==
  UNION {{Scenario(a, b, c) : b \in Users \ {a}, c \in CompIds} : a \in Users}

\* Two votes of one voter on one composition, the second sent while the
\* first is in progress.
RaceScripts ==
  UNION {{pf \o <<Vote(u, c, t1), Overlapping(Vote(u, c, t2))>> :
            pf \in Prefixes(c), u \in Users, t1 \in VoteTypes, t2 \in VoteTypes}
         : c \in CompIds}

\* Two voters vote on one composition at the same time; when both requests
\* are answered, one more vote on the composition runs alone.
RepairScripts ==
  UNION {{<<Vote(u, c, t1), Overlapping(Vote(w, c, t2)), Vote(v, c, t3)>> :
            w \in Users \ {u}, v \in Users,
            t1 \in VoteTypes, t2 \in VoteTypes, t3 \in VoteTypes}
         : u \in Users, c \in CompIds}

Scripts ==
  ToggleScripts \cup SummaryScripts \cup ScenarioScripts \cup RaceScripts
    \cup RepairScripts

InitScript == InitDB /\ script \in Scripts

Scripted(p, A) == A /\ Observe(p) /\ Recorded /\ UNCHANGED <<script, cursor>>

NextScript ==
  \E p \in Procs :
    \/ FirstFree(p) /\ StartScripted(p) /\ Observe(p) /\ UNCHANGED voters
    \/ Scripted(p, Validate(p))
    \/ Scripted(p, FindComposition(p))
    \/ Scripted(p, FindExistingVote(p))
    \/ Scripted(p, RemoveVote(p))
    \/ Scripted(p, UpdateVote(p))
    \/ Scripted(p, AddVote(p))
    \/ Scripted(p, CountLikes(p))
    \/ Scripted(p, CountDislikes(p))
    \/ Scripted(p, FindCompositionDoc(p))
    \/ Scripted(p, SaveComposition(p))
    \/ Scripted(p, FindUser(p))
    \/ Scripted(p, CountUserCompositions(p))
    \/ Scripted(p, SaveUser(p))
    \/ Scripted(p, FindSong(p))
    \/ Scripted(p, CountSongCompositions(p))
    \/ Scripted(p, SaveSong(p))
    \/ Scripted(p, FindSummaryDoc(p))
    \/ Scripted(p, Aggregate(p))
    \/ Scripted(p, FindUserVote(p))

SpecScript == InitScript /\ [][NextScript]_vars

\* calculateRating on its own: a document was loaded with some rating, its
\* likes and dislikes were assigned, and the method is called on it.
StoredRatings == {0, 50}

Recounting(l, d, x) ==
  [Idle EXCEPT !.pc = "calculateRating", !.kind = "rating", !.id = 1,
               !.doc = [NewComposition(SongOf(1), ComposerOf(1))
                          EXCEPT !.likes = l, !.dislikes = d, !.rating = x]]

InitRating ==
  /\ ledger = {}
  /\ compositions = [c \in CompIds |-> NewComposition(SongOf(c), ComposerOf(c))]
  /\ songs = InitialSongs(compositions)
  /\ users = [u \in Users |-> CountByComposer(compositions, u)]
  /\ \E l \in 0..MaxLikes, d \in 0..MaxDislikes, x \in StoredRatings :
       req = [p \in Procs |-> IF p = 1 THEN Recounting(l, d, x) ELSE Idle]
  /\ script = <<>>
  /\ cursor = 0
  /\ pre = DB
  /\ hist = <<>>
  /\ voters = [c \in CompIds |-> {}]

\* composition.calculateRating(): the document afterwards and, in count,
\* the value returned.
ApplyCalculateRating(p) ==
  LET r == req[p] IN
  /\ r.pc = "calculateRating"
  /\ req' = [req EXCEPT ![p] =
       [r EXCEPT !.pc = "done", !.doc = CalculateRating(r.doc),
                 !.count = Rating(r.doc.likes, r.doc.dislikes)]]
  /\ UNCHANGED dbvars

NextRating == \E p \in Procs : Parallel(ApplyCalculateRating(p))

SpecRating == InitRating /\ [][NextRating]_vars

----------------------------------------------------------------------------
(* Properties *)

\* The ledger documents of voter u on composition c.
Slot(l, u, c) == {e \in l : e.user = u /\ e.composition = c}

Succeeded(h) == h.req.resp.status = 200

\* At most one ledger document per (voter, composition).
UniquePerPair ==
  \A u \in Users, c \in CompIds : Cardinality(Slot(ledger, u, c)) <= 1

\* An insert into an occupied slot is rejected and changes no document.
DuplicateInsertFails ==
  \A p \in Procs :
    (/\ req[p].pc = "mutate"
     /\ req[p].existingVote = NoVote
     /\ Slot(ledger, req[p].user, req[p].id) # {}
     /\ req'[p] # req[p])
    => (ledger' = ledger /\ req'[p].resp.error = "E11000")

\* C1: in every reachable state, whatever the interleaving of the requests,
\* the ledger holds at most one entry per (voter, composition) pair, and an
\* insert for a pair that already has an entry fails at the storage layer
\* (E11000) and leaves the ledger as it was.
C1_OneEntryPerPair == []UniquePerPair /\ [][DuplicateInsertFails]_vars

C1_Witness ==
  \E p \in Procs :
    /\ req[p].resp.error = "E11000"
    /\ Cardinality(Slot(ledger, req[p].user, req[p].id)) = 1

\* C2: whenever no request is in progress, after requests that ran one at a
\* time, each composition's stored likes and dislikes equal the numbers of
\* ledger entries of that type referencing it.
C2_CountersMatchLedger ==
  AllFree =>
    \A c \in CompIds :
      compositions[c].exists =>
        /\ compositions[c].likes = CountDocuments(ledger, c, "like")
        /\ compositions[c].dislikes = CountDocuments(ledger, c, "dislike")

\* What a completed vote did to the ledger, by the slot it found.
VoteEffect(h) ==
  LET r == h.req
      old == FindVote(h.pre.ledger, r.user, r.id)
  IN IF old = NoVote
     THEN /\ r.resp.action = "added"
          /\ \E e \in h.post.ledger :
               /\ e \notin h.pre.ledger
               /\ e.id \notin {x.id : x \in h.pre.ledger}
               /\ e.user = r.user /\ e.composition = r.id /\ e.type = r.type
               /\ h.post.ledger = h.pre.ledger \cup {e}
     ELSE IF old.type # r.type
     THEN /\ r.resp.action = "updated"
          /\ h.post.ledger = (h.pre.ledger \ {old}) \cup {[old EXCEPT !.type = r.type]}
     ELSE /\ r.resp.action = "removed"
          /\ h.post.ledger = h.pre.ledger \ {old}

\* C3: a valid vote on an existing composition, run alone, does exactly one
\* of: empty slot -> one entry of the submitted type is inserted ('added');
\* slot of the other type -> that same entry gets the submitted type in
\* place ('updated'); slot of the submitted type -> the entry is deleted
\* ('removed').  The rest of the ledger is as before.
C3_VoteTriState ==
  \A i \in 1..Len(hist) :
    LET h == hist[i] IN
      (h.req.kind = "vote" /\ h.req.type \in VoteTypes
         /\ h.pre.compositions[h.req.id].exists)
      => Succeeded(h) /\ VoteEffect(h)

C3_Witness ==
  /\ Len(hist) = 3
  /\ hist[1].req.resp.action = "added"
  /\ hist[2].req.resp.action = "updated"
  /\ hist[3].req.resp.action = "removed"

\* C4: a voter without a vote on a composition who submits the same type
\* twice in a row gets 'added' then 'removed', and the ledger is again what
\* it was before the first of the two requests.
C4_ToggleTwice ==
  (script \in ToggleScripts /\ Len(hist) = Len(script)) =>
    LET n == Len(hist)
        a == hist[n - 1]
        b == hist[n]
    IN Slot(a.pre.ledger, a.req.user, a.req.id) = {} =>
         /\ a.req.resp.action = "added"
         /\ b.req.resp.action = "removed"
         /\ b.post.ledger = a.pre.ledger
         /\ Slot(ledger, a.req.user, a.req.id) = {}

C4_Witness ==
  /\ script \in ToggleScripts
  /\ Len(script) = 3
  /\ Len(hist) = 3
  /\ hist[1].req.user # hist[2].req.user
  /\ hist[2].req.resp.action = "added"
  /\ hist[3].req.resp.action = "removed"

\* A summary, a like and a summary again were answered.
LikeBetweenSummaries == script \in SummaryScripts /\ Len(hist) = Len(script)

OneMoreLike(before, after) ==
  after.likes = before.likes + 1 /\ after.userVote = "like"

\* C5 as stated: after voter v's like on t, the summary of t requested by v
\* reports one like more than the summary before the vote did, and reports
\* v's vote as like.
C5_LikeAddsOne ==
  LikeBetweenSummaries =>
    OneMoreLike(hist[Len(hist) - 2].req.resp, hist[Len(hist)].req.resp)

\* C5 amended: the same, for a voter whose vote on t was not already a like
\* (a like on a like retracts it).
C5_LikeAddsOneUnlessLiked ==
  (LikeBetweenSummaries /\ hist[Len(hist) - 2].req.resp.userVote # "like") =>
    OneMoreLike(hist[Len(hist) - 2].req.resp, hist[Len(hist)].req.resp)

C5_Witness ==
  /\ script \in SummaryScripts
  /\ Len(hist) = Len(script)
  /\ Len(script) = 4
  /\ hist[2].req.resp.userVote = "dislike"
  /\ hist[3].req.resp.action = "updated"
  /\ hist[4].req.resp.userVote = "like"
  /\ hist[4].req.resp.likes = 1

Counters(d) == <<d.likes, d.dislikes, d.rating>>

\* C6: from a composition T without votes, after each of A likes T, B
\* dislikes T, A dislikes T, B dislikes T again, the stored (likes,
\* dislikes, rating) are (1, 0, 5.0), (1, 1, 2.5), (0, 2, 0.0), (0, 1, 0.0).
C6_Scenario ==
  (script \in ScenarioScripts /\ AllFree) =>
    LET d == compositions[script[1].id] IN
      /\ cursor = 0 => Counters(d) = <<0, 0, 0>>
      /\ cursor = 1 => Counters(d) = <<1, 0, 50>>
      /\ cursor = 2 => Counters(d) = <<1, 1, 25>>
      /\ cursor = 3 => Counters(d) = <<0, 2, 0>>
      /\ cursor = 4 => Counters(d) = <<0, 1, 0>>

\* C7: after the composer's DELETE of a composition completed, no ledger
\* entry references the composition and the composition is gone.
C7_DeleteCascades ==
  \A i \in 1..Len(hist) :
    LET h == hist[i] IN
      (h.req.kind = "delete" /\ Succeeded(h)) =>
        /\ \A e \in h.post.ledger : e.composition # h.req.id
        /\ ~h.post.compositions[h.req.id].exists

C7_Witness ==
  \E i \in 1..Len(hist) :
    /\ hist[i].req.kind = "delete"
    /\ Succeeded(hist[i])
    /\ \E e \in hist[i].pre.ledger : e.composition = hist[i].req.id

\* C8: after the composer's DELETE of a composition completed, the owning
\* song's and the composer's compositionsCount are one less than before,
\* given that both matched the live counts before.
C8_DeleteDecrementsRollUps ==
  \A i \in 1..Len(hist) :
    LET h == hist[i]
        d == h.pre.compositions[h.req.id]
    IN (/\ h.req.kind = "delete" /\ Succeeded(h)
        /\ h.pre.songs[d.song].compositionsCount = CountBySong(h.pre.compositions, d.song)
        /\ h.pre.users[d.composer] = CountByComposer(h.pre.compositions, d.composer))
       => /\ h.post.songs[d.song].compositionsCount = h.pre.songs[d.song].compositionsCount - 1
          /\ h.post.users[d.composer] = h.pre.users[d.composer] - 1

\* Both overlapping likes were answered.
LikeRace ==
  /\ script \in RaceScripts
  /\ Len(hist) = Len(script)
  /\ hist[Len(hist) - 1].req.type = "like"
  /\ hist[Len(hist)].req.type = "like"

\* C9: after two overlapping likes of one voter on one composition, from any
\* state of the slot, the ledger holds at most one entry for the pair and
\* not both requests failed on the duplicate key.
C9_LikeRace ==
  LikeRace =>
    LET n == Len(hist) IN
      /\ Cardinality(Slot(ledger, hist[n].req.user, hist[n].req.id)) <= 1
      /\ ~(hist[n - 1].req.resp.error = "E11000" /\ hist[n].req.resp.error = "E11000")

C9_Witness ==
  /\ LikeRace
  /\ hist[Len(hist) - 1].req.resp.error = "E11000"
  /\ hist[Len(hist)].req.resp.action = "added"
  /\ Cardinality(Slot(ledger, hist[1].req.user, hist[1].req.id)) = 1

\* C10: when two requests of one voter on one composition both find the slot
\* empty and race to insert, one insert succeeds and the other request
\* completes as an update or a retraction, or reports a conflict; none ends
\* as a generic server failure.
C10_InsertRaceHandled ==
  (/\ script \in RaceScripts
   /\ Len(hist) = Len(script)
   /\ hist[Len(hist) - 1].req.existingVote = NoVote
   /\ hist[Len(hist)].req.existingVote = NoVote)
  => LET n == Len(hist)
         outcome == {hist[n - 1].req.resp, hist[n].req.resp}
     IN /\ \E x \in outcome : x.action = "added"
        /\ \A x \in outcome :
             \/ x.action \in {"added", "updated", "removed"}
             \/ x.error = "ConflictError"
        /\ \A x \in outcome : x.status # 500

\* C11: in every reachable state, whatever the interleaving of votes and
\* composition deletes, every ledger entry references a composition that
\* exists: none survives the deletion of its composition and none is
\* inserted after it.
C11_NoDanglingEntries ==
  \A e \in ledger : compositions[e.composition].exists

\* (l / (l + d)) * 5 rounded half up to one decimal place, in tenths.
HalfUpTenths(l, d) ==
  IF l + d = 0 THEN 0 ELSE (100 * l + (l + d)) \div (2 * (l + d))

\* calculateRating has run on worker p's document.
Rated(p) == req[p].kind = "rating" /\ req[p].pc = "done"

\* C12: for all likes l and dislikes d within the bounds, calculateRating
\* returns 0.0 when l + d = 0 and otherwise (l / (l + d)) * 5 rounded half
\* up to one decimal place.
C12_RatingRoundsHalfUp ==
  \A p \in Procs :
    Rated(p) => req[p].count = HalfUpTenths(req[p].doc.likes, req[p].doc.dislikes)

\* C13: for all likes l and dislikes d within the bounds, Rating(l, d) lies
\* in [0, 5], Rating(l + 1, d) is not below it and Rating(l, d + 1) is not
\* above it.
C13_RatingBoundedMonotone ==
  \A p \in Procs :
    Rated(p) =>
      LET l == req[p].doc.likes
          d == req[p].doc.dislikes
      IN /\ req[p].count \in 0..50
         /\ req[p].doc.rating \in 0..50
         /\ Rating(l + 1, d) >= req[p].count
         /\ Rating(l, d + 1) <= req[p].count

C13_Witness ==
  \E p \in Procs :
    /\ Rated(p)
    /\ req[p].doc.likes = 1
    /\ req[p].doc.dislikes = 2
    /\ req[p].count = 17
    /\ Rating(2, 2) = 25
    /\ Rating(1, 3) = 13

\* A vote whose type is invalid is answered by its first step, with a
\* response made from the request alone, and the step writes nothing.
RejectedAtOnce ==
  \A p \in Procs :
    (req[p].pc = "validate" /\ req[p].type \notin VoteTypes /\ req'[p] # req[p])
    => (req'[p] = Fail(req[p], 400, "validation") /\ UNCHANGED dbvars)

InvalidVotesChangeNothing ==
  \A i \in 1..Len(hist) :
    LET h == hist[i] IN
      (h.req.kind = "vote" /\ h.req.type \notin VoteTypes)
      => (h.req.resp.status = 400 /\ h.post = h.pre)

\* C14: a vote whose type is neither 'like' nor 'dislike' is rejected with a
\* validation error before storage is read or written: the ledger, every
\* composition's counters and every roll-up counter are as before, whether
\* or not the composition exists.
C14_InvalidTypeRejected == []InvalidVotesChangeNothing /\ [][RejectedAtOnce]_vars

C14_Witness ==
  \E i \in 1..Len(hist) :
    /\ hist[i].req.kind = "vote"
    /\ hist[i].req.type \notin VoteTypes
    /\ ~hist[i].pre.compositions[hist[i].req.id].exists
    /\ hist[i].pre.ledger # {}
    /\ hist[i].req.resp.error = "validation"

\* C15: a vote with a valid type on a composition that does not exist is
\* answered 404 and creates, changes or deletes no ledger entry and changes
\* no counter.
C15_MissingCompositionNotFound ==
  \A i \in 1..Len(hist) :
    LET h == hist[i] IN
      (/\ h.req.kind = "vote"
       /\ h.req.type \in VoteTypes
       /\ ~h.pre.compositions[h.req.id].exists)
      => (h.req.resp.status = 404 /\ h.post = h.pre)

C15_Witness ==
  \E i \in 1..Len(hist) :
    /\ hist[i].req.kind = "vote"
    /\ hist[i].req.type \in VoteTypes
    /\ ~hist[i].pre.compositions[hist[i].req.id].exists
    /\ hist[i].pre.ledger # {}
    /\ hist[i].req.resp.error = "notFound"

\* C16: the vote summary request, with or without an authenticated voter,
\* changes nothing: the ledger, the compositions' likes, dislikes, rating
\* and views, and the song and user roll-up counters are after it what they
\* were before it.
C16_SummaryChangesNothing ==
  \A i \in 1..Len(hist) :
    hist[i].req.kind = "summary" => hist[i].post = hist[i].pre

C16_Witness ==
  \E i \in 1..Len(hist) :
    /\ hist[i].req.kind = "summary"
    /\ hist[i].req.user # Anonymous
    /\ hist[i].req.resp.status = 200
    /\ hist[i].req.resp.userVote \in VoteTypes
    /\ hist[i].pre.compositions[hist[i].req.id].views = 1

\* C17: the derived fields are written by the aggregation only: a composition
\* created through POST /api/compositions starts with likes, dislikes and
\* rating 0 whatever the body holds, no PUT /:id changes a composition's
\* likes, dislikes or rating, and a song created through POST /api/songs
\* starts with compositionsCount 0.
C17_DerivedFieldsNotWritable ==
  \A i \in 1..Len(hist) :
    LET h == hist[i]
        r == h.req
    IN /\ (r.kind = "create" /\ r.resp.status = 201)
            => Counters(h.post.compositions[r.id]) = <<0, 0, 0>>
       /\ r.kind = "update"
            => \A c \in CompIds :
                 Counters(h.post.compositions[c]) = Counters(h.pre.compositions[c])
       /\ (r.kind = "addSong" /\ r.resp.status = 201)
            => h.post.songs[r.body.song].compositionsCount = 0

\* Only composition create requests have run.
OnlyCreates == \A i \in 1..Len(hist) : hist[i].req.kind = "create"

\* C18: after any sequence of composition create requests run one at a time,
\* each song's stored compositionsCount is the number of compositions that
\* reference the song and each user's stored compositionsCount is the number
\* of compositions the user composed.
C18_CreateKeepsRollUps ==
  (AllFree /\ OnlyCreates) =>
    /\ \A s \in SongIds :
         songs[s].exists => songs[s].compositionsCount = CountBySong(compositions, s)
    /\ \A u \in Users : users[u] = CountByComposer(compositions, u)

C18_Witness ==
  /\ AllFree
  /\ OnlyCreates
  /\ Len(hist) = 3
  /\ hist[1].req.resp.status = 201
  /\ hist[2].req.resp.status = 404
  /\ hist[3].req.resp.status = 201
  /\ hist[1].req.user # hist[3].req.user
  /\ \E s \in SongIds : songs[s].compositionsCount = 2
  /\ \A u \in Users : users[u] = 1

\* C19: the response to a vote carries the resulting type in its type field:
\* with action 'added' or 'updated' it is the submitted type, with action
\* 'removed' the field is there and its value is null.
C19_ResponseCarriesType ==
  \A i \in 1..Len(hist) :
    LET r == hist[i].req IN
      (r.kind = "vote" /\ Succeeded(hist[i])) =>
        /\ r.resp.action \in {"added", "updated"} => r.resp.type = r.type
        /\ r.resp.action = "removed" => r.resp.type = "null"

\* C20: whenever no request is in progress, after any sequence or
\* interleaving of votes, each composition's stored rating is
\* Rating(stored likes, stored dislikes) of that composition; with no likes
\* and no dislikes stored, the stored rating is 0.
C20_StoredRatingMatchesCounts ==
  AllFree =>
    \A c \in CompIds :
      compositions[c].exists =>
        compositions[c].rating = Rating(compositions[c].likes, compositions[c].dislikes)

\* C21: for every successful vote, whatever its action, the composition's
\* likes, dislikes and rating are recomputed from the ledger and written
\* after the ledger mutation and before the response: when the response is
\* sent the stored counters are those of the ledger as the vote left it.
C21_CountersFreshAtResponse ==
  \A i \in 1..Len(hist) :
    LET h == hist[i]
        d == h.post.compositions[h.req.id]
    IN (h.req.kind = "vote" /\ Succeeded(h)) =>
         /\ d.likes = CountDocuments(h.post.ledger, h.req.id, "like")
         /\ d.dislikes = CountDocuments(h.post.ledger, h.req.id, "dislike")
         /\ d.rating = Rating(d.likes, d.dislikes)

\* C22: after concurrent votes of different voters on one composition have
\* finished, the next vote on that composition that runs alone to
\* completion, whatever its action, leaves the composition's stored likes
\* and dislikes equal to the ledger counts.
C22_NextVoteRepairs ==
  (/\ script \in RepairScripts
   /\ Len(hist) = Len(script)
   /\ AllFree
   /\ Succeeded(hist[Len(hist)]))
  => LET c == script[1].id IN
       /\ compositions[c].likes = CountDocuments(ledger, c, "like")
       /\ compositions[c].dislikes = CountDocuments(ledger, c, "dislike")

\* C23: a vote, whatever its action, writes no song's and no user's
\* compositionsCount: both roll-ups have after the vote the stored value
\* they had before it, also when that value was stale.
C23_VoteKeepsRollUps ==
  \A i \in 1..Len(hist) :
    LET h == hist[i] IN
      (h.req.kind = "vote" /\ Succeeded(h)) =>
        (h.post.songs = h.pre.songs /\ h.post.users = h.pre.users)

\* C24: when storage rejects the ledger write of a vote (insert, update in
\* place or delete), the request persists nothing: the ledger and the
\* compositions' likes, dislikes and rating are as before the request, and
\* the caller gets an error.
C24_FailedLedgerWritePersistsNothing ==
  \A i \in 1..Len(hist) :
    LET h == hist[i] IN
      h.req.resp.error = "ledgerWrite" =>
        (h.req.resp.status = 500 /\ h.post = h.pre)

C24_Witness ==
  \E i \in 1..Len(hist), j \in 1..Len(hist) :
    /\ hist[i].req.resp.error = "ledgerWrite"
    /\ hist[i].req.existingVote = NoVote
    /\ hist[j].req.resp.error = "ledgerWrite"
    /\ hist[j].req.existingVote # NoVote
    /\ hist[j].req.existingVote.type # hist[j].req.type
    /\ hist[j].post.ledger = {hist[j].req.existingVote}

\* The ledger of h.post is that of h.pre with the vote of h.req applied.
VoteApplied(h) ==
  LET r == h.req
      old == FindVote(h.pre.ledger, r.user, r.id)
  IN IF old = NoVote
     THEN \E e \in h.post.ledger :
            /\ e \notin h.pre.ledger
            /\ e.user = r.user /\ e.composition = r.id /\ e.type = r.type
            /\ h.post.ledger = h.pre.ledger \cup {e}
     ELSE h.post.ledger = (h.pre.ledger \ {old}) \cup {[old EXCEPT !.type = r.type]}

\* C25: when the recount of the counters or their write fails after the
\* ledger write of a vote succeeded, the ledger mutation is kept: the entry
\* holds the submitted vote, and the composition's stored counters are the
\* ones from before the request.
C25_FailedRecountKeepsVote ==
  \A i \in 1..Len(hist) :
    LET h == hist[i] IN
      h.req.resp.error = "recount" =>
        /\ VoteApplied(h)
        /\ h.post.compositions = h.pre.compositions

C25_Witness ==
  \E i \in 1..Len(hist) :
    LET h == hist[i] IN
      /\ h.req.resp.error = "recount"
      /\ h.req.action = "updated"
      /\ h.req.type = "dislike"
      /\ h.post.compositions[h.req.id].likes = 1
      /\ CountDocuments(h.post.ledger, h.req.id, "like") = 0
      /\ CountDocuments(h.post.ledger, h.req.id, "dislike") = 1

\* C26: after a successful DELETE /api/songs/:id, which deletes all
\* compositions of the song, no ledger entry references a composition that
\* no longer exists.
C26_SongDeleteCascadesToLedger ==
  \A i \in 1..Len(hist) :
    LET h == hist[i] IN
      (h.req.kind = "deleteSong" /\ Succeeded(h)) =>
        \A e \in h.post.ledger : h.post.compositions[e.composition].exists

\* C27: every vote summary response is self-consistent: total is likes +
\* dislikes, likes and dislikes are the ledger counts at the time of the
\* read, and rating is Rating(likes, dislikes) of that same response.
C27_SummarySelfConsistent ==
  \A i \in 1..Len(hist) :
    LET h == hist[i]
        resp == h.req.resp
    IN (h.req.kind = "summary" /\ Succeeded(h)) =>
         /\ resp.total = resp.likes + resp.dislikes
         /\ resp.likes = CountDocuments(h.post.ledger, h.req.id, "like")
         /\ resp.dislikes = CountDocuments(h.post.ledger, h.req.id, "dislike")
         /\ resp.rating = Rating(resp.likes, resp.dislikes)

\* C28: in every reachable state, under any interleaving of vote requests,
\* each composition's stored likes and dislikes are non-negative and stored
\* likes + stored dislikes never exceeds the number of distinct voters who
\* have ever voted on that composition.
C28_CountersWithinVoters ==
  \A c \in CompIds :
    compositions[c].exists =>
      /\ compositions[c].likes >= 0
      /\ compositions[c].dislikes >= 0
      /\ compositions[c].likes + compositions[c].dislikes <= Cardinality(voters[c])

\* What a vote of type t does to a slot holding s ("none": no entry) when it
\* runs alone, and what the slot holds afterwards.
SerialAction(s, t) == IF s = "none" THEN "added" ELSE IF s = t THEN "removed" ELSE "updated"
SerialSlot(s, t) == IF s = t THEN "none" ELSE t

SlotType(l, u, c) == IF FindVote(l, u, c) = NoVote THEN "none" ELSE FindVote(l, u, c).type

\* Requests a then b, run one after the other from slot s, report the
\* actions of a and b and leave the slot as the ledger l has it.
SerialOrder(s, a, b, l) ==
  /\ a.req.resp.action = SerialAction(s, a.req.type)
  /\ b.req.resp.action = SerialAction(SerialSlot(s, a.req.type), b.req.type)
  /\ SlotType(l, a.req.user, a.req.id)
       = SerialSlot(SerialSlot(s, a.req.type), b.req.type)

\* C29: vote requests are linearizable per (voter, composition): when two
\* concurrent votes of one voter on one composition both report success,
\* their reported actions and the final ledger slot are those of running
\* the two requests one after the other in some order.
C29_VotesLinearizablePerSlot ==
  LET n == Len(script) IN
  (/\ script \in RaceScripts /\ Len(hist) = n /\ AllFree
   /\ Succeeded(hist[n - 1]) /\ Succeeded(hist[n]))
  => LET u == script[n].user
         c == script[n].id
         s == IF n = 2 THEN "none" ELSE SlotType(hist[n - 2].post.ledger, u, c)
     IN \/ SerialOrder(s, hist[n - 1], hist[n], ledger)
        \/ SerialOrder(s, hist[n], hist[n - 1], ledger)

\* C30: a composition delete by a user who is not the composition's composer
\* is refused and changes nothing: the composition still exists and every
\* ledger entry referencing it is still there with the same type.
C30_ForeignDeleteRefused ==
  \A i \in 1..Len(hist) :
    LET h == hist[i] IN
      (/\ h.req.kind = "delete"
       /\ h.pre.compositions[h.req.id].exists
       /\ h.pre.compositions[h.req.id].composer # h.req.user)
      => /\ h.req.resp.status = 403
         /\ h.post.compositions[h.req.id] = h.pre.compositions[h.req.id]
         /\ \A e \in h.pre.ledger : e.composition = h.req.id => e \in h.post.ledger
         /\ h.post = h.pre

C30_Witness ==
  \E i \in 1..Len(hist) :
    LET h == hist[i] IN
      /\ h.req.kind = "delete"
      /\ h.pre.compositions[h.req.id].exists
      /\ h.pre.compositions[h.req.id].composer # h.req.user
      /\ \E e \in h.post.ledger : e.composition = h.req.id /\ e.user = h.req.user
      /\ \E e \in h.post.ledger : e.composition = h.req.id /\ e.user # h.req.user

====
